---- MODULE Spec2Model ----
(***************************************************************************)
(* The two drivers of eml-eda/multi-objective-nas:                         *)
(*   src/mnist/search.py   architecture search on MNIST                    *)
(*   src/kws/fine-tune.py  fine-tuning of a searched keyword-spotting net  *)
(* Each run is one sequential process; pc is its position in main().       *)
(*                                                                         *)
(* Numbers.  Learning rates are integers in units of 1e-4 (1e-2 = 100).    *)
(* An accuracy 100. * correct / n is kept as the exact fraction            *)
(* [num |-> 100 * correct, den |-> n]; comparing two of them is comparing  *)
(* the quotients.  Dictionary keys str(epoch) are the epoch numbers: str   *)
(* is injective on integers.  Model parameters are one integer; torch's    *)
(* optimizer step moves them to any value of ParamSpace.                   *)
(***************************************************************************)
EXTENDS Integers, Sequences, FiniteSets, TLC

\* ------------------------------------------------------------ bounds
MaxEpochs == 3
MaxBatches == 2
MaxLogInterval == 2
NumParamVals == 3
\* a long run, past the last threshold of the fine-tune schedule
LongEpochs == 151

\* ------------------------------------------------------------ program constants
\* fine-tune.py adjust_learning_rate, units of 1e-4
LR_1 == 100
LR_2 == 50
LR_3 == 25
LR_4 == 10
EPOCH_T1 == 50
EPOCH_T2 == 100
EPOCH_T3 == 150
\* --lr defaults, units of 1e-4
FT_LR_DEFAULT == 100
SRCH_LR_DEFAULT == 10000
\* --gamma default 0.7, as GAMMA_NUM / GAMMA_DEN
GAMMA_NUM == 7
GAMMA_DEN == 10

\* an optional value: None, or Some(v)
None == << >>
Some(v) == << v >>
Undefined == "undefined"
\* the local cuda_kwargs before any assignment
NoKwargs == [defined |-> FALSE, num_workers |-> 0, pin_memory |-> FALSE, shuffle |-> FALSE]

\* ------------------------------------------------------------ data and model
\* Held-out splits: sequences of (input, label) samples, two classes.
ValSet == << [x |-> 0, y |-> 0], [x |-> 1, y |-> 1], [x |-> 2, y |-> 1] >>
TestSet == << [x |-> 0, y |-> 0], [x |-> 1, y |-> 0], [x |-> 2, y |-> 1],
              [x |-> 1, y |-> 0] >>
\* --test-batch-size
TestBatchSize == 2

\* The parameter states an optimizer step can produce.  Long runs are explored
\* with a single parameter state, short ones with NumParamVals of them.
ParamSpace(a) == IF a.epochs >= LongEpochs THEN {0} ELSE 0 .. (NumParamVals - 1)

\* The network: class scores of input x under parameters w.  In training
\* mode the forward pass is stochastic (noise # 0 is possible), in
\* evaluation mode it is a function of (w, x).
Scores(w, x, noise) == << (2 * w + 2 * x + noise) % 5, (3 * w * x + 1 + w) % 5 >>

NoiseOf(m) == IF m = "eval" THEN {0} ELSE {0, 1}

\* output.argmax(dim=1): the first index holding the maximum
ArgMax(s) == CHOOSE i \in 1 .. Len(s) :
                /\ \A j \in 1 .. Len(s) : s[j] <= s[i]
                /\ \A j \in 1 .. (i - 1) : s[j] < s[i]

\* class labels are 0-based
Pred(w, x, noise) == ArgMax(Scores(w, x, noise)) - 1

\* DataLoader(dataset, batch_size): consecutive batches, the last one partial
RECURSIVE Batches(_, _)
Batches(ds, bs) ==
    IF Len(ds) = 0 THEN << >>
    ELSE IF Len(ds) <= bs THEN << ds >>
    ELSE << SubSeq(ds, 1, bs) >> \o Batches(SubSeq(ds, bs + 1, Len(ds)), bs)

\* pred.eq(target.view_as(pred)).sum().item() on one batch
RECURSIVE BatchCorrect(_, _, _)
BatchCorrect(w, batch, noise) ==
    IF Len(batch) = 0 THEN 0
    ELSE (IF Pred(w, Head(batch).x, noise) = Head(batch).y THEN 1 ELSE 0)
         + BatchCorrect(w, Tail(batch), noise)

\* the loop "for data, target in test_loader: correct += ..."
RECURSIVE LoopCorrect(_, _, _)
LoopCorrect(w, batches, noise) ==
    IF Len(batches) = 0 THEN 0
    ELSE BatchCorrect(w, Head(batches), noise) + LoopCorrect(w, Tail(batches), noise)

\* 100. * correct / len(test_loader.dataset)
Accuracy(correct, ds) == [num |-> 100 * correct, den |-> Len(ds)]

\* a >= b on accuracies
AccGE(a, b) == a.num * b.den >= b.num * a.den
AccGT(a, b) == a.num * b.den > b.num * a.den
AccEQ(a, b) == a.num * b.den = b.num * a.den

Loader(name) == IF name = "val" THEN ValSet ELSE TestSet

\* per-layer complexities, recomputed from the parameters by a forward pass
SizeDict(w) == << w + 1, 2 * w >>
OpsDict(w) == << 3 * w, w + 2 >>

\* sum(model.size_dict.values())
RECURSIVE SumValues(_)
SumValues(d) == IF Len(d) = 0 THEN 0 ELSE Head(d) + SumValues(Tail(d))

\* torch.abs
Abs(v) == IF v < 0 THEN 0 - v ELSE v

\* classification loss of a training batch (an abstract non-negative value)
ClassLoss(w, b) == (w + b) % 3

VARIABLES
    args,          \* parsed command line, with the loader length and the host
    pc,            \* position in main()
    use_cuda,      \* not args.no_cuda and torch.cuda.is_available(); FALSE before
    device,        \* "cuda" | "cpu" | Undefined
    cuda_kwargs,   \* the local cuda_kwargs: defined only when use_cuda
    params,        \* model parameters (state_dict)
    mode,          \* "train" | "eval": model.training
    complexity,    \* [size, ops]: model.size_dict / model.ops_dict (search)
    lr,            \* the optimizer's rate, param_group['lr']; 0 before the optimizer exists
    grads,         \* "none" | "zero" | "ready"
    opt_steps,     \* optimizer.step() calls so far
    epoch,         \* loop variable of main()
    batch_idx,     \* loop variable of train()
    losses,        \* [loss, loss_size, loss_ops] of the current batch
    val_acc,       \* dict of main() (fine-tune)
    test_acc,      \* dict of main() (fine-tune)
    best_epoch,    \* fine-tune
    file,          \* content of the run's saved_models/ file, None when absent
    ret,           \* value returned by the last test() call
    printed,       \* accuracy printed by the last test() call
    report,        \* the final "Best Val Acc / Test Acc" lines (fine-tune)
    hist           \* history of the run (not program state)

vars == << args, pc, use_cuda, device, cuda_kwargs, params, mode, complexity, lr,
           grads, opt_steps, epoch, batch_idx, losses, val_acc, test_acc,
           best_epoch, file, ret, printed, report, hist >>

\* variables of main() that train() and test() cannot touch
mainLocals == << args, use_cuda, device, cuda_kwargs, epoch, val_acc, test_acc, best_epoch >>

\* ------------------------------------------------------------ initial states
CudaHosts == { [no_cuda |-> FALSE, cuda_available |-> TRUE],
               [no_cuda |-> TRUE, cuda_available |-> TRUE],
               [no_cuda |-> FALSE, cuda_available |-> FALSE] }

\* (--size-target, --cd-size, --cd-ops): the defaults and two search settings
LossArgs == { << 0, 0, 0 >>, << 0, 1, 0 >>, << 5, 2, 1 >> }

MkArgs(driver, epochs, dry, li, lr0, host, ec, nb, la) ==
    [ driver |-> driver, epochs |-> epochs, dry_run |-> dry, log_interval |-> li,
      lr |-> lr0, no_cuda |-> host.no_cuda, cuda_available |-> host.cuda_available,
      eval_complexity |-> ec, nbatches |-> nb,
      size_target |-> la[1], cd_size |-> la[2], cd_ops |-> la[3] ]

FtArgs == { MkArgs("ft", n, dry, li, lr0, host, ec, nb, << 0, 0, 0 >>) :
              n \in 0 .. MaxEpochs, dry \in BOOLEAN, li \in 1 .. MaxLogInterval,
              lr0 \in {FT_LR_DEFAULT, 10 * FT_LR_DEFAULT}, host \in CudaHosts,
              ec \in BOOLEAN, nb \in 1 .. MaxBatches }

SrchArgs == { MkArgs("search", n, dry, li, SRCH_LR_DEFAULT, host, ec, nb, la) :
              n \in 0 .. MaxEpochs, dry \in BOOLEAN, li \in 1 .. MaxLogInterval,
              host \in CudaHosts, ec \in BOOLEAN, nb \in 1 .. MaxBatches,
              la \in LossArgs }

\* long runs: one batch per epoch, accelerator present
LongArgs ==
    LET host == [no_cuda |-> FALSE, cuda_available |-> TRUE] IN
    { MkArgs("ft", LongEpochs, FALSE, 1, lr0, host, FALSE, 1, << 0, 0, 0 >>) :
        lr0 \in {FT_LR_DEFAULT, 10 * FT_LR_DEFAULT} }
    \cup { MkArgs("search", LongEpochs, FALSE, 1, SRCH_LR_DEFAULT, host, FALSE, 1,
                  << 0, 0, 0 >>) }

NoLosses == [loss |-> 0, loss_size |-> 0, loss_ops |-> 0]
NoComplexity == [size |-> << >>, ops |-> << >>]

EmptyHist == [ snap |-> << >>,      \* snap[e]: parameters when train() of epoch e returned
               acc |-> << >>,       \* acc[e]: validation accuracy measured in epoch e
               lr_train |-> << >>,  \* lr_train[e]: rates the optimizer stepped with in epoch e
               steps |-> << >>,     \* steps of the current batch, in order
               batches |-> << >>,   \* batch indices stepped in the current train() call
               nlog |-> 0,          \* progress lines of the current train() call
               phases |-> << >>,    \* what has completed in the current epoch, in order
               evals |-> {},        \* every test() call: parameters, loader, result
               epochs |-> << >>,    \* the epochs whose train() was called, in order
               saves |-> << >> ]    \* the value of epoch at each torch.save, in order

Init ==
    /\ args \in FtArgs \cup SrchArgs \cup LongArgs
    /\ pc = "start"
    /\ use_cuda = FALSE
    /\ device = Undefined
    /\ cuda_kwargs = NoKwargs
    /\ params = 0
    /\ mode = "train"
    /\ complexity = NoComplexity
    /\ lr = 0
    /\ grads = "none"
    /\ opt_steps = 0
    /\ epoch = 0
    /\ batch_idx = 0
    /\ losses = NoLosses
    /\ val_acc = << >>
    /\ test_acc = << >>
    /\ best_epoch = 0
    /\ file = None
    /\ ret = None
    /\ printed = None
    /\ report = None
    /\ hist = EmptyHist

\* d[k] = v on a dict kept as a function
Put(d, k, v) == [i \in DOMAIN d \cup {k} |-> IF i = k THEN v ELSE d[i]]

\* bookkeeping of the history
Did(h, step) == [h EXCEPT !.steps = Append(@, step)]
Phase(h, name) == [h EXCEPT !.phases = Append(@, name)]
TrainReturned(h, e, w) == [h EXCEPT !.snap = Put(@, e, w), !.phases = Append(@, "train")]
Evaluated(h, w, loader, acc) ==
    [h EXCEPT !.evals = @ \cup {[p |-> w, loader |-> loader, acc |-> acc]}]

\* ------------------------------------------------------------ shared helpers
\* a loop that skips every other batch
NextBatchIdx_Skip(i) == i + 2

\* enumerate(train_loader): the index after i
NextBatchIdx(i) == i + 1

\* range(1, args.epochs + 1): the epoch after e
NextEpoch(e) == e + 1

\* model.eval()
EvalMode(m) == "eval"

\* ============================================================ fine-tune.py
\* the schedule with its thresholds taken inclusively
adjust_learning_rate_Inclusive(e) ==
    IF e <= EPOCH_T1 THEN LR_1
    ELSE IF e <= EPOCH_T2 THEN LR_2
    ELSE IF e <= EPOCH_T3 THEN LR_3
    ELSE LR_4

\* adjust_learning_rate(optimizer, epoch): the rate it writes
adjust_learning_rate(e) ==
    IF e < EPOCH_T1 THEN LR_1
    ELSE IF e < EPOCH_T2 THEN LR_2
    ELSE IF e < EPOCH_T3 THEN LR_3
    ELSE LR_4

\* if batch_idx % args.log_interval == 0
FtShouldLog(i, li) == i % li = 0

\* the comparison made strict, and the comparison dropped
FtShouldCheckpoint_Strict(cur, best) == AccGT(cur, best)
FtShouldCheckpoint_Always(cur, best) == TRUE

\* if val_acc[str(epoch)] >= val_acc[str(best_epoch)]
FtShouldCheckpoint(cur, best) == AccGE(cur, best)

\* test(): the accuracy it computes, prints and returns
FtTestCorrect(w, ds, noise) == LoopCorrect(w, Batches(ds, TestBatchSize), noise)
\* the accuracy divided by len(test_loader), the number of batches
FtTestAccuracy_LoaderLen(w, ds, noise) ==
    Accuracy(FtTestCorrect(w, ds, noise), Batches(ds, TestBatchSize))
FtTestAccuracy(w, ds, noise) == Accuracy(FtTestCorrect(w, ds, noise), ds)

\* lines 79-93: device resolution; cuda_kwargs is assigned only under use_cuda
FtStartup ==
    /\ pc = "start" /\ args.driver = "ft"
    /\ use_cuda' = (~args.no_cuda /\ args.cuda_available)
    /\ device' = IF use_cuda' THEN "cuda" ELSE "cpu"
    /\ cuda_kwargs' = IF use_cuda'
                      THEN [defined |-> TRUE, num_workers |-> 4, pin_memory |-> TRUE,
                            shuffle |-> TRUE]
                      ELSE cuda_kwargs
    /\ pc' = "ft_loaders"
    /\ UNCHANGED << args, params, mode, complexity, lr, grads, opt_steps, epoch,
                    batch_idx, losses, val_acc, test_acc, best_epoch, file, ret,
                    printed, report, hist >>

\* lines 95-144: the three loaders are built with **cuda_kwargs
FtBuildLoaders ==
    /\ pc = "ft_loaders"
    /\ pc' = IF ~cuda_kwargs.defined THEN "NameError" ELSE "ft_model"
    /\ UNCHANGED << args, use_cuda, device, cuda_kwargs, params, mode, complexity, lr,
                    grads, opt_steps, epoch, batch_idx, losses, val_acc, test_acc,
                    best_epoch, file, ret, printed, report, hist >>

\* lines 146-156: model, optimizer, the accuracy dicts and best_epoch
FtCreateModel ==
    /\ pc = "ft_model"
    /\ params' = 0
    /\ mode' = "train"
    /\ lr' = args.lr
    /\ val_acc' = Put(<< >>, 0, [num |-> 0, den |-> 1])
    /\ test_acc' = << >>
    /\ best_epoch' = 0
    /\ pc' = "ft_for"
    /\ UNCHANGED << args, use_cuda, device, cuda_kwargs, complexity, grads, opt_steps,
                    epoch, batch_idx, losses, file, ret, printed, report, hist >>

\* line 157: for epoch in range(1, args.epochs + 1); then train() is entered
\* (line 185, model.train()) and its iterator starts
FtFor ==
    /\ pc = "ft_for"
    /\ IF epoch < args.epochs
       THEN /\ epoch' = NextEpoch(epoch)
            /\ mode' = "train"
            /\ batch_idx' = 0
            /\ hist' = [hist EXCEPT !.phases = << >>, !.batches = << >>, !.nlog = 0,
                                    !.steps = << >>, !.epochs = Append(@, epoch')]
            /\ pc' = "ft_fetch"
       ELSE /\ pc' = "ft_report"
            /\ UNCHANGED << epoch, mode, batch_idx, hist >>
    /\ UNCHANGED << args, use_cuda, device, cuda_kwargs, params, complexity, lr, grads,
                    opt_steps, losses, val_acc, test_acc, best_epoch, file, ret,
                    printed, report >>

\* line 186: the next batch of the loader, or the end of train()
FtTrainFetch ==
    /\ pc = "ft_fetch"
    /\ IF batch_idx < args.nbatches
       THEN /\ pc' = "ft_zero_grad"
            /\ hist' = [hist EXCEPT !.steps = << >>]
       ELSE /\ pc' = "ft_val"
            /\ hist' = TrainReturned(hist, epoch, params)
    /\ UNCHANGED << mainLocals, params, mode, complexity, lr, grads, opt_steps,
                    batch_idx, losses, file, ret, printed, report >>

\* line 188
FtZeroGrad ==
    /\ pc = "ft_zero_grad"
    /\ grads' = "zero"
    /\ hist' = Did(hist, "zero_grad")
    /\ pc' = "ft_forward"
    /\ UNCHANGED << mainLocals, params, mode, complexity, lr, opt_steps, batch_idx,
                    losses, file, ret, printed, report >>

\* line 191
FtForward ==
    /\ pc = "ft_forward"
    /\ hist' = Did(hist, "forward")
    /\ pc' = "ft_loss"
    /\ UNCHANGED << mainLocals, params, mode, complexity, lr, grads, opt_steps,
                    batch_idx, losses, file, ret, printed, report >>

\* line 192
FtLoss ==
    /\ pc = "ft_loss"
    /\ losses' = [loss |-> ClassLoss(params, batch_idx), loss_size |-> 0, loss_ops |-> 0]
    /\ hist' = Did(hist, "loss")
    /\ pc' = "ft_backward"
    /\ UNCHANGED << mainLocals, params, mode, complexity, lr, grads, opt_steps,
                    batch_idx, file, ret, printed, report >>

\* line 194
FtBackward ==
    /\ pc = "ft_backward"
    /\ grads' = "ready"
    /\ hist' = Did(hist, "backward")
    /\ pc' = "ft_step"
    /\ UNCHANGED << mainLocals, params, mode, complexity, lr, opt_steps, batch_idx,
                    losses, file, ret, printed, report >>

\* line 195: optimizer.step() with the rate the optimizer holds
FtOptStep ==
    /\ pc = "ft_step"
    /\ \E w \in ParamSpace(args) : params' = w
    /\ opt_steps' = opt_steps + 1
    /\ hist' = [Did(hist, "step") EXCEPT
                   !.batches = Append(@, batch_idx),
                   !.lr_train = Put(@, epoch, IF epoch \in DOMAIN @ THEN @[epoch] \cup {lr}
                                              ELSE {lr})]
    /\ pc' = "ft_log"
    /\ UNCHANGED << mainLocals, mode, complexity, lr, grads, batch_idx, losses, file,
                    ret, printed, report >>

\* lines 196-201: the progress line and the dry-run break
FtLog ==
    /\ pc = "ft_log"
    /\ IF FtShouldLog(batch_idx, args.log_interval)
       THEN IF args.dry_run
            THEN /\ hist' = TrainReturned([hist EXCEPT !.nlog = @ + 1], epoch, params)
                 /\ pc' = "ft_val"
                 /\ UNCHANGED batch_idx
            ELSE /\ hist' = [hist EXCEPT !.nlog = @ + 1]
                 /\ batch_idx' = NextBatchIdx(batch_idx)
                 /\ pc' = "ft_fetch"
       ELSE /\ batch_idx' = NextBatchIdx(batch_idx)
            /\ pc' = "ft_fetch"
            /\ UNCHANGED hist
    /\ UNCHANGED << mainLocals, params, mode, complexity, lr, grads, opt_steps, losses,
                    file, ret, printed, report >>

\* line 159: val_acc[str(epoch)] = test(model, device, val_loader, ...)
FtVal ==
    /\ pc = "ft_val"
    /\ mode' = EvalMode(mode)
    /\ \E noise \in NoiseOf(mode') :
         LET acc == FtTestAccuracy(params, ValSet, noise) IN
           /\ ret' = Some(acc)
           /\ printed' = Some(acc)
           /\ val_acc' = Put(val_acc, epoch, acc)
           /\ hist' = Phase([Evaluated(hist, params, "val", acc) EXCEPT
                                !.acc = Put(@, epoch, acc)], "val")
    /\ pc' = "ft_test"
    /\ UNCHANGED << args, use_cuda, device, cuda_kwargs, params, complexity, lr, grads,
                    opt_steps, epoch, batch_idx, losses, test_acc, best_epoch, file,
                    report >>

\* line 160: test_acc[str(epoch)] = test(model, device, test_loader, ...)
FtTest ==
    /\ pc = "ft_test"
    /\ mode' = EvalMode(mode)
    /\ \E noise \in NoiseOf(mode') :
         LET acc == FtTestAccuracy(params, TestSet, noise) IN
           /\ ret' = Some(acc)
           /\ printed' = Some(acc)
           /\ test_acc' = Put(test_acc, epoch, acc)
           /\ hist' = Phase(Evaluated(hist, params, "test", acc), "test")
    /\ pc' = "ft_adjust"
    /\ UNCHANGED << args, use_cuda, device, cuda_kwargs, params, complexity, lr, grads,
                    opt_steps, epoch, batch_idx, losses, val_acc, best_epoch, file,
                    report >>

\* line 161: adjust_learning_rate(optimizer, epoch)
FtAdjustLR ==
    /\ pc = "ft_adjust"
    /\ lr' = adjust_learning_rate(epoch)
    /\ hist' = Phase(hist, "lr")
    /\ pc' = "ft_ckpt"
    /\ UNCHANGED << mainLocals, params, mode, complexity, grads, opt_steps, batch_idx,
                    losses, file, ret, printed, report >>

\* lines 162-166: the checkpoint decision and torch.save
FtCheckpoint ==
    /\ pc = "ft_ckpt"
    /\ IF FtShouldCheckpoint(val_acc[epoch], val_acc[best_epoch])
       THEN /\ best_epoch' = epoch
            /\ file' = Some(params)
            /\ hist' = Phase([hist EXCEPT !.saves = Append(@, epoch)], "ckpt")
       ELSE /\ hist' = Phase(hist, "ckpt")
            /\ UNCHANGED << best_epoch, file >>
    /\ pc' = "ft_for"
    /\ UNCHANGED << args, use_cuda, device, cuda_kwargs, params, mode, complexity, lr,
                    grads, opt_steps, epoch, batch_idx, losses, val_acc, test_acc,
                    ret, printed, report >>

\* lines 169-170: the two result lines; test_acc has no entry for epoch 0
FtReport ==
    /\ pc = "ft_report"
    /\ IF best_epoch \in DOMAIN test_acc
       THEN /\ report' = Some([epoch |-> best_epoch, val |-> val_acc[best_epoch],
                               test |-> Some(test_acc[best_epoch])])
            /\ pc' = "done"
       ELSE /\ report' = Some([epoch |-> best_epoch, val |-> val_acc[best_epoch],
                               test |-> None])
            /\ pc' = "KeyError"
    /\ UNCHANGED << args, use_cuda, device, cuda_kwargs, params, mode, complexity, lr,
                    grads, opt_steps, epoch, batch_idx, losses, val_acc, test_acc,
                    best_epoch, file, ret, printed, hist >>

FtNext ==
    \/ FtStartup \/ FtBuildLoaders \/ FtCreateModel \/ FtFor \/ FtTrainFetch
    \/ FtZeroGrad \/ FtForward \/ FtLoss \/ FtBackward \/ FtOptStep \/ FtLog
    \/ FtVal \/ FtTest \/ FtAdjustLR \/ FtCheckpoint \/ FtReport

\* ============================================================ search.py
\* the interval counted from the first batch instead of from batch 0
SrchShouldLog_OffByOne(i, li) == (i + 1) % li = 0

\* if batch_idx % args.log_interval == 0
SrchShouldLog(i, li) == i % li = 0

\* the size penalty without torch.abs
SrchLossSize_NoAbs(size_dict, size_target, cd_size) ==
    (SumValues(size_dict) - size_target) * cd_size

\* lines 142-143: loss_size = torch.abs(sum(size_dict.values()) - size_target);
\* loss_size *= cd_size
SrchLossSize(size_dict, size_target, cd_size) ==
    Abs(SumValues(size_dict) - size_target) * cd_size

\* lines 145-146: loss_ops = sum(ops_dict.values()); loss_ops *= cd_ops
SrchLossOps(ops_dict, cd_ops) == SumValues(ops_dict) * cd_ops

\* line 148: loss += loss_size + loss_ops
SrchTotalLoss(nll, loss_size, loss_ops) == nll + (loss_size + loss_ops)

\* test(): the accuracy it computes and prints; it has no return statement
SrchTestCorrect(w, ds, noise) == LoopCorrect(w, Batches(ds, TestBatchSize), noise)
SrchTestAccuracy(w, ds, noise) == Accuracy(SrchTestCorrect(w, ds, noise), ds)
SrchTestReturn(acc) == None

\* StepLR(optimizer, step_size=1, gamma).step(): the rate is multiplied by
\* gamma, here cut to a whole number of 1e-4 units
SrchSchedulerStep(rate) == (rate * GAMMA_NUM) \div GAMMA_DEN

\* a save of the parameters the model was created with
SrchSavedState_Initial(w) == 0

\* what the final torch.save(model.state_dict(), ...) writes
SrchSavedState(w) == w

\* lines 72-86: device resolution; train_kwargs and test_kwargs always exist
SrchStartup ==
    /\ pc = "start" /\ args.driver = "search"
    /\ use_cuda' = (~args.no_cuda /\ args.cuda_available)
    /\ device' = IF use_cuda' THEN "cuda" ELSE "cpu"
    /\ cuda_kwargs' = IF use_cuda'
                      THEN [defined |-> TRUE, num_workers |-> 1, pin_memory |-> TRUE,
                            shuffle |-> TRUE]
                      ELSE cuda_kwargs
    /\ pc' = "srch_loaders"
    /\ UNCHANGED << args, params, mode, complexity, lr, grads, opt_steps, epoch,
                    batch_idx, losses, val_acc, test_acc, best_epoch, file, ret,
                    printed, report, hist >>

\* lines 88-97: the loaders are built with **train_kwargs and **test_kwargs
SrchBuildLoaders ==
    /\ pc = "srch_loaders"
    /\ pc' = "srch_model"
    /\ UNCHANGED << args, use_cuda, device, cuda_kwargs, params, mode, complexity, lr,
                    grads, opt_steps, epoch, batch_idx, losses, val_acc, test_acc,
                    best_epoch, file, ret, printed, report, hist >>

\* lines 99-103: model, optimizer, scheduler
SrchCreateModel ==
    /\ pc = "srch_model"
    /\ params' = 0
    /\ mode' = "train"
    /\ lr' = args.lr
    /\ pc' = "srch_init_test"
    /\ UNCHANGED << args, use_cuda, device, cuda_kwargs, complexity, grads, opt_steps,
                    epoch, batch_idx, losses, val_acc, test_acc, best_epoch, file, ret,
                    printed, report, hist >>

\* lines 105-112: the dummy test step that yields the initial complexities
SrchInitTest ==
    /\ pc = "srch_init_test"
    /\ mode' = EvalMode(mode)
    /\ complexity' = [size |-> SizeDict(params), ops |-> OpsDict(params)]
    /\ \E noise \in NoiseOf(mode') :
         LET acc == SrchTestAccuracy(params, TestSet, noise) IN
           /\ ret' = SrchTestReturn(acc)
           /\ printed' = Some(acc)
           /\ hist' = Evaluated(hist, params, "test", acc)
    /\ pc' = "srch_eval_complexity"
    /\ UNCHANGED << mainLocals, params, lr, grads, opt_steps, batch_idx, losses, file,
                    report >>

\* lines 113-115: if args.eval_complexity: return
SrchEvalComplexity ==
    /\ pc = "srch_eval_complexity"
    /\ pc' = IF args.eval_complexity THEN "done" ELSE "srch_for"
    /\ UNCHANGED << args, use_cuda, device, cuda_kwargs, params, mode, complexity, lr,
                    grads, opt_steps, epoch, batch_idx, losses, val_acc, test_acc,
                    best_epoch, file, ret, printed, report, hist >>

\* line 117: for epoch in range(1, args.epochs + 1); then train() is entered
\* (line 135, model.train()) and its iterator starts
SrchFor ==
    /\ pc = "srch_for"
    /\ IF epoch < args.epochs
       THEN /\ epoch' = NextEpoch(epoch)
            /\ mode' = "train"
            /\ batch_idx' = 0
            /\ hist' = [hist EXCEPT !.phases = << >>, !.batches = << >>, !.nlog = 0,
                                    !.steps = << >>, !.epochs = Append(@, epoch')]
            /\ pc' = "srch_fetch"
       ELSE /\ pc' = "srch_final"
            /\ UNCHANGED << epoch, mode, batch_idx, hist >>
    /\ UNCHANGED << args, use_cuda, device, cuda_kwargs, params, complexity, lr, grads,
                    opt_steps, losses, val_acc, test_acc, best_epoch, file, ret,
                    printed, report >>

\* line 136: the next batch of the loader, or the end of train()
SrchTrainFetch ==
    /\ pc = "srch_fetch"
    /\ IF batch_idx < args.nbatches
       THEN /\ pc' = "srch_zero_grad"
            /\ hist' = [hist EXCEPT !.steps = << >>]
       ELSE /\ pc' = "srch_test"
            /\ hist' = TrainReturned(hist, epoch, params)
    /\ UNCHANGED << mainLocals, params, mode, complexity, lr, grads, opt_steps,
                    batch_idx, losses, file, ret, printed, report >>

\* line 138
SrchZeroGrad ==
    /\ pc = "srch_zero_grad"
    /\ grads' = "zero"
    /\ hist' = Did(hist, "zero_grad")
    /\ pc' = "srch_forward"
    /\ UNCHANGED << mainLocals, params, mode, complexity, lr, opt_steps, batch_idx,
                    losses, file, ret, printed, report >>

\* line 139: the forward pass recomputes size_dict and ops_dict
SrchForward ==
    /\ pc = "srch_forward"
    /\ complexity' = [size |-> SizeDict(params), ops |-> OpsDict(params)]
    /\ hist' = Did(hist, "forward")
    /\ pc' = "srch_loss"
    /\ UNCHANGED << mainLocals, params, mode, lr, grads, opt_steps, batch_idx, losses,
                    file, ret, printed, report >>

\* lines 140-148
SrchLoss ==
    /\ pc = "srch_loss"
    /\ LET nll == ClassLoss(params, batch_idx)
           loss_size == SrchLossSize(complexity.size, args.size_target, args.cd_size)
           loss_ops == SrchLossOps(complexity.ops, args.cd_ops)
       IN losses' = [loss |-> SrchTotalLoss(nll, loss_size, loss_ops),
                     loss_size |-> loss_size, loss_ops |-> loss_ops]
    /\ hist' = Did(hist, "loss")
    /\ pc' = "srch_backward"
    /\ UNCHANGED << mainLocals, params, mode, complexity, lr, grads, opt_steps,
                    batch_idx, file, ret, printed, report >>

\* line 149
SrchBackward ==
    /\ pc = "srch_backward"
    /\ grads' = "ready"
    /\ hist' = Did(hist, "backward")
    /\ pc' = "srch_step"
    /\ UNCHANGED << mainLocals, params, mode, complexity, lr, opt_steps, batch_idx,
                    losses, file, ret, printed, report >>

\* line 150
SrchOptStep ==
    /\ pc = "srch_step"
    /\ \E w \in ParamSpace(args) : params' = w
    /\ opt_steps' = opt_steps + 1
    /\ hist' = [Did(hist, "step") EXCEPT
                   !.batches = Append(@, batch_idx),
                   !.lr_train = Put(@, epoch, IF epoch \in DOMAIN @ THEN @[epoch] \cup {lr}
                                              ELSE {lr})]
    /\ pc' = "srch_log"
    /\ UNCHANGED << mainLocals, mode, complexity, lr, grads, batch_idx, losses, file,
                    ret, printed, report >>

\* lines 151-156: the progress line and the dry-run break
SrchLog ==
    /\ pc = "srch_log"
    /\ IF SrchShouldLog(batch_idx, args.log_interval)
       THEN IF args.dry_run
            THEN /\ hist' = TrainReturned([hist EXCEPT !.nlog = @ + 1], epoch, params)
                 /\ pc' = "srch_test"
                 /\ UNCHANGED batch_idx
            ELSE /\ hist' = [hist EXCEPT !.nlog = @ + 1]
                 /\ batch_idx' = NextBatchIdx(batch_idx)
                 /\ pc' = "srch_fetch"
       ELSE /\ batch_idx' = NextBatchIdx(batch_idx)
            /\ pc' = "srch_fetch"
            /\ UNCHANGED hist
    /\ UNCHANGED << mainLocals, params, mode, complexity, lr, grads, opt_steps, losses,
                    file, ret, printed, report >>

\* line 119: test(model, device, test_loader); its value is discarded
SrchTest ==
    /\ pc = "srch_test"
    /\ mode' = EvalMode(mode)
    /\ complexity' = [size |-> SizeDict(params), ops |-> OpsDict(params)]
    /\ \E noise \in NoiseOf(mode') :
         LET acc == SrchTestAccuracy(params, TestSet, noise) IN
           /\ ret' = SrchTestReturn(acc)
           /\ printed' = Some(acc)
           /\ hist' = Phase([Evaluated(hist, params, "test", acc) EXCEPT
                                !.acc = Put(@, epoch, acc)], "val")
    /\ pc' = "srch_sched"
    /\ UNCHANGED << mainLocals, params, lr, grads, opt_steps, batch_idx, losses, file,
                    report >>

\* line 120: scheduler.step()
SrchSchedStep ==
    /\ pc = "srch_sched"
    /\ lr' = SrchSchedulerStep(lr)
    /\ hist' = Phase(hist, "lr")
    /\ pc' = "srch_for"
    /\ UNCHANGED << mainLocals, params, mode, complexity, grads, opt_steps, batch_idx,
                    losses, file, ret, printed, report >>

\* lines 122-132: the final complexities and the one torch.save of the run
SrchFinal ==
    /\ pc = "srch_final"
    /\ file' = Some(SrchSavedState(params))
    /\ hist' = [hist EXCEPT !.saves = Append(@, epoch)]
    /\ pc' = "done"
    /\ UNCHANGED << mainLocals, params, mode, complexity, lr, grads, opt_steps,
                    batch_idx, losses, ret, printed, report >>

SrchNext ==
    \/ SrchStartup \/ SrchBuildLoaders \/ SrchCreateModel \/ SrchInitTest
    \/ SrchEvalComplexity \/ SrchFor \/ SrchTrainFetch \/ SrchZeroGrad \/ SrchForward
    \/ SrchLoss \/ SrchBackward \/ SrchOptStep \/ SrchLog \/ SrchTest
    \/ SrchSchedStep \/ SrchFinal

Next == FtNext \/ SrchNext

Spec == Init /\ [][Next]_vars

\* ============================================================ properties
Ft == args.driver = "ft"
Srch == args.driver = "search"

\* e holds the maximum of the accuracies measured in epochs 1..n
IsMaxUpTo(e, n) == \A j \in 1 .. n : AccGE(hist.acc[e], hist.acc[j])

\* the last epoch of 1..n holding the maximum
IsLastMaxUpTo(e, n) ==
    /\ e \in 1 .. n
    /\ IsMaxUpTo(e, n)
    /\ \A j \in (e + 1) .. n : ~AccEQ(hist.acc[j], hist.acc[e])

\* C1: when a fine-tune run of N >= 1 epochs ends, the best epoch it reports
\* is the last epoch of 1..N whose validation accuracy is the maximum of the
\* run's accuracies (on a tie the most recent epoch).
C1_BestEpochIsLastMax ==
    (Ft /\ pc = "done" /\ args.epochs >= 1) =>
        /\ IsLastMaxUpTo(best_epoch, args.epochs)
        /\ report # None
        /\ report[1].epoch = best_epoch
        /\ report[1].val = hist.acc[best_epoch]

\* a finished run where the maximum was measured twice, under different
\* parameters, and then a lower accuracy followed
C1_Witness ==
    /\ Ft /\ pc = "done" /\ args.epochs >= 3
    /\ best_epoch = 2
    /\ AccEQ(hist.acc[1], hist.acc[2])
    /\ hist.snap[1] # hist.snap[2]
    /\ AccGT(hist.acc[2], hist.acc[3])

\* the rate the schedule is said to put in effect for epoch e
ScheduledRate(e) ==
    IF e < EPOCH_T1 THEN LR_1
    ELSE IF e < EPOCH_T2 THEN LR_2
    ELSE IF e < EPOCH_T3 THEN LR_3
    ELSE LR_4

\* C2 as stated: every optimizer step of fine-tune epoch e is taken at the
\* scheduled rate of e (1e-2 below 50, 5e-3 below 100, 2.5e-3 below 150, 1e-3
\* from 150), whatever --lr was.
C2_RateOfEpochAsStated ==
    Ft => \A e \in DOMAIN hist.lr_train : hist.lr_train[e] = {ScheduledRate(e)}

\* C2 amended: the rate is overwritten after the evaluations of each epoch, so
\* epoch 1 trains at --lr and epoch e >= 2 at the scheduled rate of e - 1:
\* 1e-2 for 2..50, 5e-3 for 51..100, 2.5e-3 for 101..150, 1e-3 from 151.
C2_RateOfEpochAmended ==
    Ft => \A e \in DOMAIN hist.lr_train :
            hist.lr_train[e] =
                { IF e = 1 THEN args.lr
                  ELSE IF e <= EPOCH_T1 THEN LR_1
                  ELSE IF e <= EPOCH_T2 THEN LR_2
                  ELSE IF e <= EPOCH_T3 THEN LR_3
                  ELSE LR_4 }

\* a run stepping in epoch 151 that crossed every threshold, started at a
\* rate that is not the schedule's
C2_Witness ==
    /\ Ft /\ pc = "ft_log" /\ epoch = EPOCH_T3 + 1
    /\ args.lr # LR_1
    /\ hist.lr_train[1] = {args.lr}
    /\ hist.lr_train[EPOCH_T1] = {LR_1}
    /\ hist.lr_train[EPOCH_T1 + 1] = {LR_2}
    /\ hist.lr_train[EPOCH_T2] = {LR_2}
    /\ hist.lr_train[EPOCH_T2 + 1] = {LR_3}
    /\ hist.lr_train[EPOCH_T3] = {LR_3}
    /\ hist.lr_train[epoch] = {LR_4}

\* a search run that went through its epoch loop and ended
SrchLoopDone == Srch /\ pc = "done" /\ ~args.eval_complexity

\* C3 as stated: the srch_ file written at the end of a search run holds the
\* parameters of an epoch whose accuracy was the best of the run.
C3_FileIsBestEpochAsStated ==
    (SrchLoopDone /\ args.epochs >= 1) =>
        \E e \in 1 .. args.epochs :
            IsMaxUpTo(e, args.epochs) /\ file = Some(hist.snap[e])

\* C3 amended: the srch_ file is written once, when the epoch loop is over,
\* and holds the parameters after the last epoch (those of the initial model
\* when there is no epoch), whatever accuracies were measured.
C3_FileIsLastEpoch ==
    /\ (Srch /\ pc # "done") => (file = None /\ hist.saves = << >>)
    /\ SrchLoopDone =>
          /\ file = Some(params)
          /\ hist.saves = << args.epochs >>
          /\ args.epochs >= 1 => file = Some(hist.snap[args.epochs])
          /\ args.epochs = 0 => file = Some(0)

\* a finished search whose last epoch measured less than an earlier one,
\* under other parameters
C3_Witness ==
    /\ SrchLoopDone /\ args.epochs >= 2
    /\ AccGT(hist.acc[1], hist.acc[args.epochs])
    /\ hist.snap[1] # hist.snap[args.epochs]
    /\ file = Some(hist.snap[args.epochs])

\* the epochs of 1..n whose accuracy was >= every accuracy before them (the
\* epoch-0 baseline of 0.0 is below or equal to all)
RecordEpochs(n) ==
    { e \in 1 .. n : \A j \in 1 .. (e - 1) : AccGE(hist.acc[e], hist.acc[j]) }

\* C4: in the fine-tune run, the epochs that wrote the file are exactly those
\* whose validation accuracy was >= the best recorded so far, each wrote once,
\* and after every completed epoch e the one file holds the parameters as
\* they were at the end of training epoch best_epoch, the last best of 1..e.
C4_FileIsBestSoFar ==
    (Ft /\ epoch >= 1 /\ pc \in {"ft_for", "ft_report", "done"}) =>
        /\ { hist.saves[i] : i \in DOMAIN hist.saves } = RecordEpochs(epoch)
        /\ Len(hist.saves) = Cardinality(RecordEpochs(epoch))
        /\ IsLastMaxUpTo(best_epoch, epoch)
        /\ file = Some(hist.snap[best_epoch])

\* an epoch that wrote nothing: the file is older than the parameters
C4_Witness ==
    /\ Ft /\ pc = "ft_for" /\ epoch >= 2
    /\ best_epoch < epoch
    /\ file = Some(hist.snap[best_epoch])
    /\ file # Some(params)
    /\ Len(hist.saves) < epoch

\* C5: a run whose device resolved to the general-purpose processor does not
\* fail: it goes on to build its loaders, train and evaluate.
C5_CpuRunDoesNotFail ==
    (device = "cpu") => pc # "NameError"

\* train() of the current epoch has returned
TrainDone == Len(hist.phases) >= 1

\* C6: with --dry-run every call of train(), in both drivers, processes
\* exactly one batch: one optimizer step and one progress line, whatever the
\* loader length and the log interval.
C6_DryRunOneBatch ==
    (args.dry_run /\ epoch >= 1) =>
        /\ Len(hist.batches) <= 1
        /\ hist.nlog <= 1
        /\ opt_steps = (epoch - 1) + Len(hist.batches)
        /\ TrainDone => (hist.batches = << 0 >> /\ hist.nlog = 1)

\* a dry run of the search driver over the longest loader with the largest
\* log interval, its train() just returned in a second epoch
C6_Witness ==
    /\ Srch /\ args.dry_run /\ pc = "srch_test" /\ epoch >= 2
    /\ args.nbatches >= 2 /\ args.log_interval >= 2
    /\ hist.batches = << 0 >>
    /\ opt_steps = epoch

\* the aggregates of the complexities of the current parameters, layer by layer
AggregateSize == SizeDict(params)[1] + SizeDict(params)[2]
AggregateOps == OpsDict(params)[1] + OpsDict(params)[2]

\* C7: the loss the search driver backpropagates is classification loss
\* + cd_size * |aggregate size - size_target| + cd_ops * aggregate ops; with
\* size_target = 0 and cd_size = 1 the size term is the aggregate size.
C7_LossComposition ==
    (Srch /\ pc \in {"srch_backward", "srch_step"}) =>
        LET d == AggregateSize - args.size_target
            size_term == args.cd_size * (IF d >= 0 THEN d ELSE 0 - d)
            ops_term == args.cd_ops * AggregateOps
        IN /\ losses.loss_size = size_term
           /\ losses.loss_ops = ops_term
           /\ losses.loss = ClassLoss(params, batch_idx) + size_term + ops_term
           /\ (args.size_target = 0 /\ args.cd_size = 1) =>
                  (losses.loss_size = AggregateSize /\ losses.loss_size >= 0)

\* a batch whose aggregate size is under the target, with both penalties on
C7_Witness ==
    /\ Srch /\ pc = "srch_backward"
    /\ AggregateSize < args.size_target
    /\ args.cd_size = 2 /\ args.cd_ops = 1
    /\ losses.loss_size > 0 /\ losses.loss_ops > 0
    /\ losses.loss > losses.loss_size + losses.loss_ops

\* the samples of ds the parameters w classify as labelled, and the accuracy
\* 100 * |them| / |ds|
CorrectSamples(w, ds) == { i \in 1 .. Len(ds) : Pred(w, ds[i].x, 0) = ds[i].y }
ExpectedAccuracy(w, ds) == [num |-> 100 * Cardinality(CorrectSamples(w, ds)), den |-> Len(ds)]

\* the loader of the test() call that has just returned
JustTested ==
    IF pc = "ft_test" THEN "val"
    ELSE IF pc \in {"ft_adjust", "srch_eval_complexity", "srch_sched"} THEN "test"
    ELSE "none"

\* a test() call is the next step
AtTestCall == pc \in {"ft_val", "ft_test", "srch_init_test", "srch_test"}

\* C8 as stated: every test() call, in both drivers, returns the accuracy
\* 100 * correct / len(dataset) of the current parameters.
C8_TestReturnsAccuracyAsStated ==
    (JustTested # "none") => ret = Some(ExpectedAccuracy(params, Loader(JustTested)))

\* what a test() call computed and printed, and what it left alone
C8_Computed ==
    /\ \A r \in hist.evals : r.acc = ExpectedAccuracy(r.p, Loader(r.loader))
    /\ (JustTested # "none") =>
          /\ printed = Some(ExpectedAccuracy(params, Loader(JustTested)))
          /\ Ft => ret = printed
          /\ Srch => ret = None
          /\ mode = "eval"

C8_Untouched ==
    AtTestCall =>
        /\ params' = params
        /\ opt_steps' = opt_steps
        /\ lr' = lr
        /\ grads' = grads
        /\ best_epoch' = best_epoch
        /\ file' = file
        /\ \A k \in DOMAIN val_acc \ {epoch} : val_acc'[k] = val_acc[k]

\* C8 amended: a test() call leaves the parameters, the optimizer and the
\* best-accuracy record unchanged and takes no optimizer step; calls on the
\* same parameters and loader compute and print the same accuracy,
\* 100 * correct / len(dataset); the fine-tune test() returns it, the search
\* test() returns nothing.
C8_TestIsPureAmended == []C8_Computed /\ [][C8_Untouched]_vars

\* the same parameters evaluated in two epochs on the same loader, and
\* other parameters evaluated between them with another result
C8_Witness ==
    /\ Ft /\ pc = "ft_adjust" /\ epoch = 3
    /\ hist.snap[1] = hist.snap[3]
    /\ hist.snap[1] # hist.snap[2]
    /\ AccEQ(val_acc[1], val_acc[3])
    /\ ~AccEQ(val_acc[1], val_acc[2])
    /\ AccEQ(test_acc[1], test_acc[3])
    /\ ret = Some(test_acc[3])

\* C9: with --eval-complexity a driver exits after the initial complexity
\* evaluation: no training epoch, no optimizer step, no file written.
C9_EvalComplexityExits ==
    args.eval_complexity => (epoch = 0 /\ opt_steps = 0 /\ file = None)

\* <<1, ..., n>>
Iota(n) == [i \in 1 .. n |-> i]

IsPrefix(a, b) == Len(a) <= Len(b) /\ \A i \in 1 .. Len(a) : a[i] = b[i]

BatchSteps == << "zero_grad", "forward", "loss", "backward", "step" >>

EpochPhases == IF Ft THEN << "train", "val", "test", "lr", "ckpt" >>
               ELSE << "train", "val", "lr" >>

\* what must have completed in the current epoch when the run is at p
PhasesBefore(p) ==
    IF p \in {"ft_val", "srch_test"} THEN << "train" >>
    ELSE IF p \in {"ft_test", "srch_sched"} THEN << "train", "val" >>
    ELSE IF p = "ft_adjust" THEN << "train", "val", "test" >>
    ELSE IF p = "ft_ckpt" THEN << "train", "val", "test", "lr" >>
    ELSE << >>

InTrain == pc \in { "ft_fetch", "ft_zero_grad", "ft_forward", "ft_loss", "ft_backward",
                    "ft_step", "ft_log", "srch_fetch", "srch_zero_grad", "srch_forward",
                    "srch_loss", "srch_backward", "srch_step", "srch_log" }

\* the epoch loop is over
LoopOver ==
    \/ pc \in {"ft_report", "srch_final", "KeyError"}
    \/ pc = "done" /\ ~(Srch /\ args.eval_complexity)

\* C10: without --dry-run, epochs 1..N run in increasing order, each once;
\* in an epoch every batch of the loader is processed once, in loader order,
\* by the steps zero_grad, forward, loss, backward, optimizer step (one
\* optimizer step per batch); training ends before the evaluations start, the
\* evaluations end before the rate update and the checkpoint decision, and
\* the loop ends after epoch N.
C10_ExactlyOnceInOrder ==
    ~args.dry_run =>
        /\ epoch <= args.epochs
        /\ hist.epochs = Iota(epoch)
        /\ IsPrefix(hist.steps, BatchSteps)
        /\ pc \in {"ft_log", "srch_log"} => hist.steps = BatchSteps
        /\ hist.batches = [i \in 1 .. Len(hist.batches) |-> i - 1]
        /\ Len(hist.batches) <= args.nbatches
        /\ epoch >= 1 => opt_steps = (epoch - 1) * args.nbatches + Len(hist.batches)
        /\ TrainDone => Len(hist.batches) = args.nbatches
        /\ InTrain => hist.phases = << >>
        /\ pc \in {"ft_val", "ft_test", "ft_adjust", "ft_ckpt", "srch_test", "srch_sched"}
              => hist.phases = PhasesBefore(pc)
        /\ (pc \in {"ft_for", "srch_for"} /\ epoch >= 1) => hist.phases = EpochPhases
        /\ LoopOver =>
              /\ epoch = args.epochs
              /\ epoch >= 1 => hist.phases = EpochPhases
              /\ opt_steps = args.epochs * args.nbatches

\* a finished fine-tune run of several epochs over several batches
C10_Witness ==
    /\ Ft /\ pc = "done" /\ ~args.dry_run
    /\ args.epochs >= 3 /\ args.nbatches >= 2
    /\ hist.epochs = << 1, 2, 3 >>
    /\ hist.batches = << 0, 1 >>
    /\ opt_steps = 6

\* the fine-tune run is at its final report, or past it
FtAtEnd == Ft /\ pc \in {"ft_report", "done", "KeyError"}

\* the final report reads val_acc and test_acc at an epoch of 1..N that has
\* both entries, and both lines are printed
ReportDefined ==
    /\ best_epoch \in 1 .. args.epochs
    /\ best_epoch \in DOMAIN val_acc
    /\ best_epoch \in DOMAIN test_acc
    /\ pc # "KeyError"
    /\ pc = "done" => (report # None /\ report[1].epoch = best_epoch
                       /\ report[1].val = val_acc[best_epoch]
                       /\ report[1].test = Some(test_acc[best_epoch]))

\* C11 as stated: for every epoch count N >= 0, at the end of the fine-tune
\* run best_epoch names an epoch of 1..N with a recorded validation and test
\* accuracy, and the report reads no missing entry.
C11_ReportDefinedAsStated == FtAtEnd => ReportDefined

\* C11 amended: the same for every epoch count N >= 1 (epoch 1 always takes
\* the first checkpoint, its accuracy being >= the 0.0 of epoch 0); with
\* N = 0 best_epoch stays 0, which test_acc has no entry for.
C11_ReportDefinedAmended == (FtAtEnd /\ args.epochs >= 1) => ReportDefined

\* a finished run whose first epoch only tied the 0.0 baseline and whose
\* later accuracies were no better
C11_Witness ==
    /\ Ft /\ pc = "done" /\ args.epochs >= 2
    /\ hist.acc[1].num = 0
    /\ best_epoch = args.epochs
    /\ report[1].test = Some(test_acc[best_epoch])

====
